---- MODULE Spec2Model ----
(***************************************************************************)
(* A model of the daily-summary repository: the IMAP reader               *)
(* (email_fetcher.fetch_unread), the NewsAPI client                        *)
(* (news_client.fetch_top_headlines), the OpenWeather client               *)
(* (weather_client.get_daily_weather) and the mailer                       *)
(* (summary_mailer.build_body / send_summary_email).                       *)
(*                                                                         *)
(* Every function is a small state machine whose steps are the I/O         *)
(* commands it issues.  The remote services are inputs: a reply is drawn   *)
(* from the set of replies the service can give.  Each function has its    *)
(* own specification (SpecMail, SpecNews, SpecWeather, SpecBody, SpecSend) *)
(* in which the variables of the other functions stay idle.                *)
(***************************************************************************)
EXTENDS Integers, Sequences, FiniteSets

VARIABLES
    \* ---- email_fetcher.fetch_unread ----
    mark_as_read,        \* keyword argument
    exclude_promotions,  \* keyword argument
    gmSupported,         \* the server understands the X-GM-RAW search key
    mailbox,             \* the unread messages of the mailbox, by number
    seen,                \* message numbers flagged \Seen on the server
    mpc,                 \* position in fetch_unread
    searchStatus,        \* status returned by connection.search
    data,                \* message numbers returned by connection.search
    cur,                 \* index into data of the message in the loop
    messages,            \* the local list of (subject, snippet) pairs
    cmds,                \* commands issued on the connection, in order
    pending,             \* what the try block left to do after the finally
    mOutcome,            \* how the call ended
    injected,            \* a transport failure was injected in this call
    closeRaised,         \* connection.close() raised
    \* ---- news_client.fetch_top_headlines ----
    api_key,             \* NEWS_API_KEY is set to a non-empty value
    keywords,            \* argument: None, a list of terms, or one string
    category,            \* argument: None or a string
    requested,           \* argument limit as the caller gave it
    limit,               \* the local limit, reassigned by the clamp
    npc,                 \* position in fetch_top_headlines
    requests,            \* the HTTP requests sent, by their parameters
    articles,            \* the "articles" array of the response
    nOutcome,            \* how the call ended
    nResult,             \* the list returned
    \* ---- weather_client.get_daily_weather ----
    w_key,               \* OPENWEATHER_API_KEY is set to a non-empty value
    wpc,                 \* position in get_daily_weather
    samples,             \* the "list" array of the response
    today,               \* the UTC date read from the clock
    todays_entries,      \* the samples the summary is computed from
    wOutcome,            \* how the call ended
    wResult,             \* the dictionary returned
    \* ---- summary_mailer.build_body ----
    email_items,         \* argument: an iterable of strings
    weather,             \* argument: a string
    headlines,           \* argument: an iterable of strings
    bpc,                 \* position in build_body
    call,                \* which call on these arguments is running
    items_list,          \* local: the bullet lines of the items
    headlines_list,      \* local: the bullet lines of the headlines
    text_body,           \* local: the text form
    html_body,           \* local: the HTML form
    first,               \* the (text, html) pair the first call returned
    \* ---- summary_mailer.send_summary_email ----
    environ,             \* the environment variables the mailer reads
    spc,                 \* position in send_summary_email
    port,                \* local: the port number
    msg,                 \* local: the MIME message
    session,             \* the SMTP session is open
    smtp,                \* commands issued on the SMTP session, in order
    sPending,            \* the exception the with block is left with
    sOutcome             \* how the call ended

mailVars == <<mark_as_read, exclude_promotions, gmSupported, mailbox, seen, mpc,
              searchStatus, data, cur, messages, cmds, pending, mOutcome,
              injected, closeRaised>>

newsVars == <<api_key, keywords, category, requested, limit, npc, requests, articles,
              nOutcome, nResult>>

weatherVars == <<w_key, wpc, samples, today, todays_entries, wOutcome, wResult>>

bodyVars == <<email_items, weather, headlines, bpc, call, items_list,
              headlines_list, text_body, html_body, first>>

sendVars == <<environ, spc, port, msg, session, smtp, sPending, sOutcome>>

nonMailVars == <<newsVars, weatherVars, bodyVars, sendVars>>
nonNewsVars == <<mailVars, weatherVars, bodyVars, sendVars>>
nonWeatherVars == <<mailVars, newsVars, bodyVars, sendVars>>
nonBodyVars == <<mailVars, newsVars, weatherVars, sendVars>>
nonSendVars == <<mailVars, newsVars, weatherVars>>

vars == <<mailVars, newsVars, weatherVars, bodyVars, sendVars>>

\* ------------------------------------------------------------------ bounds
MaxMsgs == 2
MaxArticles == 6
LimitSlack == 1
MaxSamples == 3
MaxItems == 2

\* ----------------------------------------------------------------- helpers
Min(a, b) == IF a < b THEN a ELSE b
Max(a, b) == IF a > b THEN a ELSE b

Cmd(op, n, st) == [op |-> op, num |-> n, status |-> st]

NoPending == [kind |-> "none", value |-> <<>>]
Return(v) == [kind |-> "return", value |-> v]
Raise(e) == [kind |-> "raise", value |-> <<e>>]

\* ==================================================================
\* news_client.fetch_top_headlines
\* ==================================================================

\* A string is the sequence of its pieces; the empty string is <<>>.
\* keywords is None, a list of terms, a single string, or an iterator over
\* terms (the signature takes any Iterable[str]); category is None or a
\* string.
KeywordArgs ==
    {[type |-> "none", terms |-> <<>>],
     [type |-> "list", terms |-> <<>>],
     [type |-> "list", terms |-> <<"ai", "chips">>],
     [type |-> "str", terms |-> <<>>],
     [type |-> "str", terms |-> <<"ai">>],
     [type |-> "iter", terms |-> <<>>],
     [type |-> "iter", terms |-> <<"ai", "chips">>]}
CategoryArgs ==
    {[given |-> FALSE, text |-> <<>>],
     [given |-> TRUE, text |-> <<>>],
     [given |-> TRUE, text |-> <<"technology">>]}

\* Python's truth value of the two arguments: None, "" and [] are false; an
\* iterator is true whatever it yields.
KeywordsTruthy(kw) == kw.type = "iter" \/ (kw.type # "none" /\ kw.terms # <<>>)
CategoryTruthy(c) == c.given /\ c.text # <<>>

\* " ".join(keywords)
RECURSIVE JoinSpace(_)
JoinSpace(terms) ==
    IF terms = <<>> THEN <<>>
    ELSE IF Len(terms) = 1 THEN <<terms[1]>>
    ELSE <<terms[1], " ">> \o JoinSpace(Tail(terms))

\* The articles arrays tried: up to MaxArticles entries; entry k carries its
\* own title and url, or lacks one of the two.
ArticleAt(k, hasTitle, hasUrl) ==
    [title |-> IF hasTitle THEN <<"title", k>> ELSE <<>>,
     url |-> IF hasUrl THEN <<"url", k>> ELSE <<>>]
ArticleArrays ==
    UNION {{[k \in 1..n |-> ArticleAt(k, f[k][1], f[k][2])] :
              f \in [1..n -> {<<TRUE, TRUE>>, <<FALSE, TRUE>>, <<TRUE, FALSE>>}]} :
           n \in 0..MaxArticles}

\* Clamp_NoUpper: the clamp without its upper end.
Clamp_NoUpper(n) == Max(3, n)

\* line 43: limit = max(3, min(5, limit))
Clamp(n) == Max(3, Min(5, n))

\* articles[:n]
Take(seq, n) == SubSeq(seq, 1, Min(n, Len(seq)))

\* lines 56-61: the loop that keeps the articles with a title and a url.
RECURSIVE Collect(_)
Collect(arts) ==
    IF arts = <<>> THEN <<>>
    ELSE LET article == Head(arts)
         IN IF article.title # <<>> /\ article.url # <<>>
            THEN <<[title |-> article.title, url |-> article.url]>> \o Collect(Tail(arts))
            ELSE Collect(Tail(arts))

\* lines 39-40 and 46: a single string is rebound to the list that holds it,
\* and the truth value tested on line 46 is that of the rebound keywords: a
\* list of one string is true also when the string is "".
ReboundTruthy(kw) == kw.type = "str" \/ KeywordsTruthy(kw)

\* line 47: " ".join(keywords) of the rebound keywords; joining the list that
\* holds one string gives that string.
Query(kw) == IF kw.type = "str" THEN kw.terms ELSE JoinSpace(kw.terms)

\* lines 45-49: the parameters of the request.
Params(kw, cat, n) ==
    [pageSize |-> n,
     keys |-> IF ReboundTruthy(kw) THEN {"apiKey", "pageSize", "q"}
              ELSE IF CategoryTruthy(cat) THEN {"apiKey", "pageSize", "category"}
              ELSE {"apiKey", "pageSize"},
     q |-> IF ReboundTruthy(kw) THEN Query(kw) ELSE <<>>,
     category |-> IF ~ReboundTruthy(kw) /\ CategoryTruthy(cat) THEN cat.text ELSE <<>>]

NewsInit ==
    /\ api_key \in BOOLEAN
    /\ keywords \in KeywordArgs
    /\ category \in CategoryArgs
    /\ requested \in (3 - LimitSlack)..(5 + LimitSlack)
    /\ limit = requested
    /\ npc = "key"
    /\ requests = <<>>
    /\ articles = <<>>
    /\ nOutcome = "running"
    /\ nResult = <<>>

NewsIdle ==
    /\ api_key = FALSE
    /\ keywords = [type |-> "none", terms |-> <<>>]
    /\ category = [given |-> FALSE, text |-> <<>>]
    /\ requested = 5
    /\ limit = 5
    /\ npc = "idle"
    /\ requests = <<>>
    /\ articles = <<>>
    /\ nOutcome = "idle"
    /\ nResult = <<>>

newsArgs == <<api_key, keywords, category, requested>>

\* lines 32-34: the API key from the environment.
NewsCheckKey ==
    /\ npc = "key"
    /\ IF api_key
       THEN npc' = "args" /\ UNCHANGED nOutcome
       ELSE npc' = "done" /\ nOutcome' = "EnvironmentError"
    /\ UNCHANGED <<newsArgs, limit, requests, articles, nResult>>
    /\ UNCHANGED nonNewsVars

\* NewsCheckArgs without the test: the call goes on to the request.
NewsCheckArgs_NoTest ==
    /\ npc = "args"
    /\ npc' = "request"
    /\ UNCHANGED <<newsArgs, limit, requests, articles, nResult, nOutcome>>
    /\ UNCHANGED nonNewsVars

\* lines 36-37: one of keywords and category is needed.
NewsCheckArgs ==
    /\ npc = "args"
    /\ IF ~KeywordsTruthy(keywords) /\ ~CategoryTruthy(category)
       THEN npc' = "done" /\ nOutcome' = "ValueError"
       ELSE npc' = "request" /\ UNCHANGED nOutcome
    /\ UNCHANGED <<newsArgs, limit, requests, articles, nResult>>
    /\ UNCHANGED nonNewsVars

\* lines 39-54: the clamp of limit, the parameters, the GET and its reply: a
\* transport error, an HTTP error status, or a body with an articles array.
NewsRequest ==
    /\ npc = "request"
    /\ limit' = Clamp(limit)
    /\ requests' = Append(requests, Params(keywords, category, Clamp(limit)))
    /\ \E reply \in {"RequestException", "HTTPError", "ok"} :
          IF reply = "ok"
          THEN /\ \E arts \in ArticleArrays : articles' = arts
               /\ npc' = "collect"
               /\ UNCHANGED nOutcome
          ELSE /\ npc' = "done"
               /\ nOutcome' = reply
               /\ UNCHANGED articles
    /\ UNCHANGED <<newsArgs, nResult>>
    /\ UNCHANGED nonNewsVars

\* lines 56-63: the first limit articles, filtered, are returned.
NewsCollect ==
    /\ npc = "collect"
    /\ nResult' = Collect(Take(articles, limit))
    /\ nOutcome' = "returned"
    /\ npc' = "done"
    /\ UNCHANGED <<newsArgs, limit, requests, articles>>
    /\ UNCHANGED nonNewsVars

NewsNext ==
    \/ NewsCheckKey
    \/ NewsCheckArgs
    \/ NewsRequest
    \/ NewsCollect

\* ==================================================================
\* weather_client.get_daily_weather
\* ==================================================================

\* Dates are numbered.  A forecast sample has the date of its dt_txt, a
\* temperature, a description and, optionally, pop (in tenths).
Days == {1, 2}
SampleKinds ==
    [date : Days, temp : {10, 12}, description : {"clear sky", "light rain"},
     hasPop : BOOLEAN, pop : {3}]
SampleLists == UNION {[1..n -> SampleKinds] : n \in 0..MaxSamples}

\* lines 41-44: the samples whose dt_txt starts with today's date.
RECURSIVE TodaysEntries(_, _)
TodaysEntries(list, day) ==
    IF list = <<>> THEN <<>>
    ELSE IF Head(list).date = day
         THEN <<Head(list)>> \o TodaysEntries(Tail(list), day)
         ELSE TodaysEntries(Tail(list), day)

\* lines 45-46: the first sample of the list when none is of today.
WorkingSet(list, day) ==
    IF TodaysEntries(list, day) = <<>> THEN Take(list, 1)
    ELSE TodaysEntries(list, day)

RECURSIVE SumTemps(_)
SumTemps(entries) ==
    IF entries = <<>> THEN 0 ELSE Head(entries).temp + SumTemps(Tail(entries))

\* line 52: Counter(conditions).most_common(1)[0][0]: the description counted
\* most often, the one met first among equals.
Occurrences(entries, d) ==
    Cardinality({k \in 1..Len(entries) : entries[k].description = d})
MostCommon(entries) ==
    LET best == CHOOSE k \in 1..Len(entries) :
                   /\ \A j \in 1..Len(entries) :
                         Occurrences(entries, entries[j].description)
                            <= Occurrences(entries, entries[k].description)
                   /\ \A j \in 1..(k - 1) :
                         Occurrences(entries, entries[j].description)
                            < Occurrences(entries, entries[k].description)
    IN entries[best].description

\* line 54: max(entry.get("pop", 0.0) ...), 0.0 for no entry.
RECURSIVE MaxPop(_)
MaxPop(entries) ==
    IF entries = <<>> THEN 0
    ELSE Max(IF Head(entries).hasPop THEN Head(entries).pop ELSE 0,
             MaxPop(Tail(entries)))

NoSummary == [temperature |-> [num |-> 0, den |-> 1], condition |-> "", chance_of_rain |-> 0]

\* lines 48-60: the summary; the mean is kept as the fraction sum / count.
Summary(entries) ==
    [temperature |-> [num |-> SumTemps(entries), den |-> Len(entries)],
     condition |-> MostCommon(entries),
     chance_of_rain |-> MaxPop(entries)]

WeatherInit ==
    /\ w_key \in BOOLEAN
    /\ wpc = "key"
    /\ samples = <<>>
    /\ today = 0
    /\ todays_entries = <<>>
    /\ wOutcome = "running"
    /\ wResult = NoSummary

WeatherIdle ==
    /\ w_key = FALSE
    /\ wpc = "idle"
    /\ samples = <<>>
    /\ today = 0
    /\ todays_entries = <<>>
    /\ wOutcome = "idle"
    /\ wResult = NoSummary

\* lines 23-25: the API key from the environment.
WeatherCheckKey ==
    /\ wpc = "key"
    /\ IF w_key
       THEN wpc' = "request" /\ UNCHANGED wOutcome
       ELSE wpc' = "done" /\ wOutcome' = "RuntimeError"
    /\ UNCHANGED <<w_key, samples, today, todays_entries, wResult>>
    /\ UNCHANGED nonWeatherVars

\* lines 27-38: the GET and its reply: a transport error, an HTTP error
\* status, or a body with a list of samples.
WeatherRequest ==
    /\ wpc = "request"
    /\ \E reply \in {"RequestException", "HTTPError", "ok"} :
          IF reply = "ok"
          THEN /\ \E list \in SampleLists : samples' = list
               /\ wpc' = "summarise"
               /\ UNCHANGED wOutcome
          ELSE /\ wpc' = "done"
               /\ wOutcome' = reply
               /\ UNCHANGED samples
    /\ UNCHANGED <<w_key, today, todays_entries, wResult>>
    /\ UNCHANGED nonWeatherVars

\* lines 40-60: today's date from the clock, the working set and the
\* summary; the mean divides by the size of the working set.
WeatherSummarise ==
    /\ wpc = "summarise"
    /\ \E day \in Days :
          /\ today' = day
          /\ todays_entries' = WorkingSet(samples, day)
          /\ IF Len(WorkingSet(samples, day)) = 0
             THEN wOutcome' = "ZeroDivisionError" /\ UNCHANGED wResult
             ELSE /\ wOutcome' = "returned"
                  /\ wResult' = Summary(WorkingSet(samples, day))
    /\ wpc' = "done"
    /\ UNCHANGED <<w_key, samples>>
    /\ UNCHANGED nonWeatherVars

WeatherNext ==
    \/ WeatherCheckKey
    \/ WeatherRequest
    \/ WeatherSummarise

\* ==================================================================
\* summary_mailer.build_body
\* ==================================================================

\* An iterable argument: its elements, whether it can be traversed only once
\* (an iterator or a generator, not a list), and whether it has been
\* traversed.
Strings == {"a", "b"}
Lists == UNION {[1..n -> Strings] : n \in 0..MaxItems}
Iterables == [elems : Lists, oneShot : BOOLEAN, used : {FALSE}]

\* What a for loop over the iterable yields, and the iterable after it.
Yield(it) == IF it.oneShot /\ it.used THEN <<>> ELSE it.elems
Used(it) == [it EXCEPT !.used = TRUE]

\* lines 31-32: "".join(f"- {x}\n" for x in ...)
RECURSIVE BulletLines(_)
BulletLines(xs) ==
    IF xs = <<>> THEN <<>>
    ELSE <<"- ", Head(xs), "\n">> \o BulletLines(Tail(xs))

\* lines 46 and 49: "".join(f"<li>{x}</li>" for x in ...)
RECURSIVE ListItems(_)
ListItems(xs) ==
    IF xs = <<>> THEN <<>>
    ELSE <<"<li>", Head(xs), "</li>">> \o ListItems(Tail(xs))

\* lines 34-39
TextBody(w, hl, il) ==
    <<"Daily Summary\n\n", "Weather:\n", w, "\n\n", "Headlines:\n">> \o hl
       \o <<"\n", "Items:\n">> \o il

\* lines 41-52
HtmlBody(w, hs, is) ==
    <<"<html><body>", "<h1>Daily Summary</h1>", "<h2>Weather</h2><p>", w, "</p>",
      "<h2>Headlines</h2><ul>">> \o ListItems(hs)
       \o <<"</ul>", "<h2>Items</h2><ul>">> \o ListItems(is)
       \o <<"</ul>", "</body></html>">>

BodyLocalsInit ==
    /\ items_list = <<>>
    /\ headlines_list = <<>>
    /\ text_body = <<>>
    /\ html_body = <<>>

BodyInit ==
    /\ email_items \in Iterables
    /\ headlines \in Iterables
    /\ weather = "Clear sky, 11 C"
    /\ bpc = "lists"
    /\ call = 1
    /\ first = <<>>
    /\ BodyLocalsInit

BodyIdle ==
    /\ email_items = [elems |-> <<>>, oneShot |-> FALSE, used |-> FALSE]
    /\ headlines = [elems |-> <<>>, oneShot |-> FALSE, used |-> FALSE]
    /\ weather = ""
    /\ bpc = "idle"
    /\ call = 0
    /\ first = <<>>
    /\ BodyLocalsInit

\* lines 31-32: the bullet lines; each argument is traversed.
BodyLists ==
    /\ bpc = "lists"
    /\ items_list' = BulletLines(Yield(email_items))
    /\ headlines_list' = BulletLines(Yield(headlines))
    /\ email_items' = Used(email_items)
    /\ headlines' = Used(headlines)
    /\ bpc' = "text"
    /\ UNCHANGED <<weather, call, text_body, html_body, first>>
    /\ UNCHANGED <<nonBodyVars>>

\* lines 34-39: the text form.
BodyText ==
    /\ bpc = "text"
    /\ text_body' = TextBody(weather, headlines_list, items_list)
    /\ bpc' = "html"
    /\ UNCHANGED <<email_items, weather, headlines, call, items_list,
                   headlines_list, html_body, first>>
    /\ UNCHANGED <<nonBodyVars>>

\* lines 41-54: the HTML form, which traverses each argument again, and the
\* return of the pair.
BodyHtml ==
    /\ bpc = "html"
    /\ html_body' = HtmlBody(weather, Yield(headlines), Yield(email_items))
    /\ email_items' = Used(email_items)
    /\ headlines' = Used(headlines)
    /\ bpc' = "done"
    /\ UNCHANGED <<weather, call, items_list, headlines_list, text_body, first>>
    /\ UNCHANGED <<nonBodyVars>>

\* The caller calls build_body once more with the same arguments.
BodyCallAgain ==
    /\ bpc = "done"
    /\ call = 1
    /\ call' = 2
    /\ first' = <<text_body, html_body>>
    /\ bpc' = "lists"
    /\ items_list' = <<>>
    /\ headlines_list' = <<>>
    /\ text_body' = <<>>
    /\ html_body' = <<>>
    /\ UNCHANGED <<email_items, weather, headlines>>
    /\ UNCHANGED <<nonBodyVars>>

BodyNext ==
    \/ BodyLists
    \/ BodyText
    \/ BodyHtml
    \/ BodyCallAgain

\* ==================================================================
\* summary_mailer.send_summary_email
\* ==================================================================

\* The environment: every variable is unset or set; SMTP_PORT, when set, is
\* a number or not.
Settings == {"SMTP_HOST", "SMTP_USER", "SMTP_PASSWORD", "EMAIL_FROM", "EMAIL_TO"}
Environments ==
    {[k \in Settings \cup {"SMTP_PORT"} |->
         IF k = "SMTP_PORT" THEN p ELSE IF k \in present THEN "set" ELSE "unset"] :
       present \in SUBSET Settings, p \in {"unset", "2525", "smtp"}}

\* os.getenv(name): the value of a variable that is set, "" for None.
Getenv(env, k) == IF env[k] = "set" THEN <<k, "value">> ELSE ""

\* line 70: int(os.getenv("SMTP_PORT", "587")); 0 stands for the ValueError
\* of a text that is no number.
PortOf(env) ==
    IF env["SMTP_PORT"] = "unset" THEN 587
    ELSE IF env["SMTP_PORT"] = "2525" THEN 2525
    ELSE 0

\* line 76: all([host, user, password, from_addr, to_addr])
AllSet(env) == \A k \in Settings : env[k] = "set"

NoMsg == [Subject |-> "", From |-> "", To |-> "", parts |-> <<>>]

SendInit ==
    /\ environ \in Environments
    /\ spc = "config"
    /\ port = 0
    /\ msg = NoMsg
    /\ session = FALSE
    /\ smtp = <<>>
    /\ sPending = ""
    /\ sOutcome = "running"
    /\ email_items \in {it \in Iterables : ~it.oneShot}
    /\ headlines = [elems |-> <<"b">>, oneShot |-> FALSE, used |-> FALSE]
    /\ weather = "Clear sky, 11 C"
    /\ bpc = "idle"
    /\ call = 0
    /\ first = <<>>
    /\ BodyLocalsInit

SendIdle ==
    /\ environ = [k \in Settings \cup {"SMTP_PORT"} |-> "unset"]
    /\ spc = "idle"
    /\ port = 0
    /\ msg = NoMsg
    /\ session = FALSE
    /\ smtp = <<>>
    /\ sPending = ""
    /\ sOutcome = "idle"

Smtp(op, rcpt) == [op |-> op, to_addrs |-> rcpt]

\* lines 69-77: the settings from the environment and the test that none of
\* host, user, password, from and to is missing.
SendResolveConfig ==
    /\ spc = "config"
    /\ IF PortOf(environ) = 0
       THEN spc' = "done" /\ sOutcome' = "ValueError: invalid literal" /\ UNCHANGED port
       ELSE IF ~AllSet(environ)
       THEN /\ spc' = "done"
            /\ sOutcome' = "ValueError: Missing SMTP configuration"
            /\ port' = PortOf(environ)
       ELSE /\ spc' = "compose"
            /\ port' = PortOf(environ)
            /\ UNCHANGED sOutcome
    /\ UNCHANGED <<environ, msg, session, smtp, sPending>>
    /\ UNCHANGED <<nonSendVars, bodyVars>>

\* lines 79-87: build_body and the multipart message.
SendCompose ==
    /\ spc = "compose"
    /\ items_list' = BulletLines(Yield(email_items))
    /\ headlines_list' = BulletLines(Yield(headlines))
    /\ text_body' = TextBody(weather, BulletLines(Yield(headlines)),
                             BulletLines(Yield(email_items)))
    /\ html_body' = HtmlBody(weather, Yield(Used(headlines)), Yield(Used(email_items)))
    /\ email_items' = Used(email_items)
    /\ headlines' = Used(headlines)
    /\ msg' = [Subject |-> "Daily Summary", From |-> Getenv(environ, "EMAIL_FROM"),
               To |-> Getenv(environ, "EMAIL_TO"), parts |-> <<text_body', html_body'>>]
    /\ spc' = "connect"
    /\ UNCHANGED <<weather, bpc, call, first>>
    /\ UNCHANGED <<environ, port, session, smtp, sPending, sOutcome>>
    /\ UNCHANGED nonSendVars

\* line 89: smtplib.SMTP(host, port) connects; the with block is entered
\* only when it did.
SendConnect ==
    /\ spc = "connect"
    /\ \E ok \in BOOLEAN :
          IF ok
          THEN /\ session' = TRUE
               /\ smtp' = Append(smtp, Smtp("connect", <<>>))
               /\ spc' = "starttls"
               /\ UNCHANGED sOutcome
          ELSE /\ spc' = "done"
               /\ sOutcome' = "raised: connect"
               /\ UNCHANGED <<session, smtp>>
    /\ UNCHANGED <<environ, port, msg, sPending>>
    /\ UNCHANGED <<nonSendVars, bodyVars>>

\* What a command on the session can come back with: it succeeds, the
\* server refuses it (the command raises, the session stays open), or the
\* connection drops (smtplib closes the session and raises).
SmtpReplies == {"ok", "refused", "dropped"}

\* line 90: smtp.starttls()
SendStartTls ==
    /\ spc = "starttls"
    /\ smtp' = Append(smtp, Smtp("starttls", <<>>))
    /\ \E reply \in SmtpReplies :
          IF reply = "ok"
          THEN spc' = "login" /\ UNCHANGED <<sPending, session>>
          ELSE /\ spc' = "exit"
               /\ sPending' = "raised: starttls"
               /\ session' = (session /\ reply # "dropped")
    /\ UNCHANGED <<environ, port, msg, sOutcome>>
    /\ UNCHANGED <<nonSendVars, bodyVars>>

\* SendLogin outside a with block: a failed login leaves the call at once.
SendLogin_NoWith ==
    /\ spc = "login"
    /\ smtp' = Append(smtp, Smtp("login", <<>>))
    /\ \E reply \in SmtpReplies :
          IF reply = "ok"
          THEN spc' = "sendmail" /\ UNCHANGED <<sPending, sOutcome, session>>
          ELSE /\ spc' = "done"
               /\ sPending' = "raised: login"
               /\ sOutcome' = "raised: login"
               /\ session' = (session /\ reply # "dropped")
    /\ UNCHANGED <<environ, port, msg>>
    /\ UNCHANGED <<nonSendVars, bodyVars>>

\* line 91: smtp.login(user, password)
SendLogin ==
    /\ spc = "login"
    /\ smtp' = Append(smtp, Smtp("login", <<>>))
    /\ \E reply \in SmtpReplies :
          IF reply = "ok"
          THEN spc' = "sendmail" /\ UNCHANGED <<sPending, session>>
          ELSE /\ spc' = "exit"
               /\ sPending' = "raised: login"
               /\ session' = (session /\ reply # "dropped")
    /\ UNCHANGED <<environ, port, msg, sOutcome>>
    /\ UNCHANGED <<nonSendVars, bodyVars>>

\* line 92: smtp.sendmail(from_addr, [to_addr], msg.as_string())
SendSendmail ==
    /\ spc = "sendmail"
    /\ smtp' = Append(smtp, Smtp("sendmail", <<Getenv(environ, "EMAIL_TO")>>))
    /\ spc' = "exit"
    /\ \E reply \in SmtpReplies :
          /\ sPending' = IF reply = "ok" THEN "" ELSE "raised: sendmail"
          /\ session' = (session /\ reply # "dropped")
    /\ UNCHANGED <<environ, port, msg, sOutcome>>
    /\ UNCHANGED <<nonSendVars, bodyVars>>

\* line 89, leaving the with block: SMTP.__exit__ issues QUIT and closes the
\* session whatever the block did.  On a session that is still open a
\* refused QUIT raises after the close, and that exception replaces the one
\* the block is left with; on a dropped session QUIT is not answered and
\* nothing is raised.
SendExit ==
    /\ spc = "exit"
    /\ smtp' = Append(smtp, Smtp("quit", <<>>))
    /\ session' = FALSE
    /\ spc' = "done"
    /\ \E reply \in {"ok", "refused"} :
          sOutcome' = IF session /\ reply = "refused" THEN "raised: quit"
                      ELSE IF sPending # "" THEN sPending
                      ELSE "returned"
    /\ UNCHANGED <<environ, port, msg, sPending>>
    /\ UNCHANGED <<nonSendVars, bodyVars>>

SendNext ==
    \/ SendResolveConfig
    \/ SendCompose
    \/ SendConnect
    \/ SendStartTls
    \/ SendLogin
    \/ SendSendmail
    \/ SendExit

\* ==================================================================
\* email_fetcher.fetch_unread
\* ==================================================================

\* The mailboxes tried: up to MaxMsgs unread messages, numbered 1..Len.  A
\* message is in Gmail's primary category or not, and the server answers its
\* FETCH with OK or with NO.
MsgKinds == [primary : BOOLEAN, fetchable : BOOLEAN]
Mailboxes == UNION {[1..n -> MsgKinds] : n \in 0..MaxMsgs}

\* The numbers of the messages of the mailbox that match a search, in
\* ascending order as the server lists them.
RECURSIVE Matching(_, _)
Matching(gm, n) ==
    IF n = 0 THEN <<>>
    ELSE LET rest == Matching(gm, n - 1)
         IN IF n \notin seen /\ (gm => mailbox[n].primary)
            THEN Append(rest, n) ELSE rest

\* What connection.search can come back with.  A server that does not know
\* the X-GM-RAW key rejects the command: imaplib returns the NO status or
\* raises on BAD.  Any search can also fail in transit.
SearchReplies(gm) ==
    IF gm /\ ~gmSupported
    THEN {[kind |-> "status", status |-> "NO", ids |-> <<>>, fault |-> FALSE],
          [kind |-> "raise", status |-> "BAD", ids |-> <<>>, fault |-> FALSE]}
    ELSE {[kind |-> "status", status |-> "OK",
           ids |-> Matching(gm, Len(mailbox)), fault |-> FALSE],
          [kind |-> "status", status |-> "NO", ids |-> <<>>, fault |-> TRUE],
          [kind |-> "raise", status |-> "", ids |-> <<>>, fault |-> TRUE]}

\* What connection.fetch(num, "(RFC822)") can come back with.
FetchReplies(num) ==
    {[kind |-> "status",
      status |-> IF mailbox[num].fetchable THEN "OK" ELSE "NO", fault |-> FALSE],
     [kind |-> "raise", status |-> "raise", fault |-> TRUE]}

\* The (subject, snippet) pair extracted from message num.  Header decoding
\* and snippet extraction are not modelled: the pair stands for its message.
Pair(num) == [subject |-> num, snippet |-> num]

MailInit ==
    /\ mark_as_read \in BOOLEAN
    /\ exclude_promotions \in BOOLEAN
    /\ gmSupported \in BOOLEAN
    /\ mailbox \in Mailboxes
    /\ seen = {}
    /\ mpc = "connect"
    /\ searchStatus = ""
    /\ data = <<>>
    /\ cur = 0
    /\ messages = <<>>
    /\ cmds = <<>>
    /\ pending = NoPending
    /\ mOutcome = "running"
    /\ injected = FALSE
    /\ closeRaised = FALSE

MailIdle ==
    /\ mark_as_read = FALSE
    /\ exclude_promotions = FALSE
    /\ gmSupported = FALSE
    /\ mailbox = <<>>
    /\ seen = {}
    /\ mpc = "idle"
    /\ searchStatus = ""
    /\ data = <<>>
    /\ cur = 0
    /\ messages = <<>>
    /\ cmds = <<>>
    /\ pending = NoPending
    /\ mOutcome = "idle"
    /\ injected = FALSE
    /\ closeRaised = FALSE

mailArgs == <<mark_as_read, exclude_promotions, gmSupported, mailbox>>

\* line 40: connection = imaplib.IMAP4_SSL(host), outside the try block.
MailConnect ==
    /\ mpc = "connect"
    /\ \E ok \in BOOLEAN :
          IF ok
          THEN /\ mpc' = "login"
               /\ cmds' = Append(cmds, Cmd("connect", 0, ""))
               /\ UNCHANGED <<mOutcome, injected>>
          ELSE /\ mpc' = "done"
               /\ mOutcome' = "raised"
               /\ injected' = TRUE
               /\ UNCHANGED cmds
    /\ UNCHANGED <<mailArgs, seen, searchStatus, data, cur, messages,
                   pending, closeRaised>>
    /\ UNCHANGED nonMailVars

\* line 42: connection.login(username, password)
MailLogin ==
    /\ mpc = "login"
    /\ cmds' = Append(cmds, Cmd("login", 0, ""))
    /\ \E ok \in BOOLEAN :
          IF ok
          THEN mpc' = "select" /\ UNCHANGED <<pending, injected>>
          ELSE mpc' = "close" /\ pending' = Raise("login") /\ injected' = TRUE
    /\ UNCHANGED <<mailArgs, seen, searchStatus, data, cur, messages,
                   mOutcome, closeRaised>>
    /\ UNCHANGED nonMailVars

\* line 43: connection.select(mailbox); the returned status is not looked at.
MailSelect ==
    /\ mpc = "select"
    /\ cmds' = Append(cmds, Cmd("select", 0, ""))
    /\ \E ok \in BOOLEAN :
          IF ok
          THEN mpc' = "search" /\ UNCHANGED <<pending, injected>>
          ELSE mpc' = "close" /\ pending' = Raise("select") /\ injected' = TRUE
    /\ UNCHANGED <<mailArgs, seen, searchStatus, data, cur, messages,
                   mOutcome, closeRaised>>
    /\ UNCHANGED nonMailVars

\* MailSearch without the test of the status: a status other than OK is not
\* turned into an empty list but ends the call with an error.
MailSearch_NoStatusTest ==
    /\ mpc = "search"
    /\ cmds' = Append(cmds, Cmd(IF exclude_promotions THEN "search_gm_primary_unseen"
                                ELSE "search_unseen", 0, ""))
    /\ \E reply \in SearchReplies(exclude_promotions) :
          /\ injected' = (injected \/ reply.fault)
          /\ IF reply.kind = "raise"
             THEN /\ mpc' = "close"
                  /\ pending' = Raise("search")
                  /\ UNCHANGED <<searchStatus, data, cur, messages>>
             ELSE IF reply.status # "OK"
             THEN /\ mpc' = "close"
                  /\ searchStatus' = reply.status
                  /\ pending' = Raise("search")
                  /\ UNCHANGED <<data, cur, messages>>
             ELSE /\ mpc' = "fetch"
                  /\ searchStatus' = reply.status
                  /\ data' = reply.ids
                  /\ cur' = 1
                  /\ messages' = <<>>
                  /\ UNCHANGED pending
    /\ UNCHANGED <<mailArgs, seen, mOutcome, closeRaised>>
    /\ UNCHANGED nonMailVars

\* lines 45-54: the search, the early return on a status other than OK, and
\* the empty result list.
MailSearch ==
    /\ mpc = "search"
    /\ cmds' = Append(cmds, Cmd(IF exclude_promotions THEN "search_gm_primary_unseen"
                                ELSE "search_unseen", 0, ""))
    /\ \E reply \in SearchReplies(exclude_promotions) :
          /\ injected' = (injected \/ reply.fault)
          /\ IF reply.kind = "raise"
             THEN /\ mpc' = "close"
                  /\ pending' = Raise("search")
                  /\ UNCHANGED <<searchStatus, data, cur, messages>>
             ELSE IF reply.status # "OK"
             THEN /\ mpc' = "close"
                  /\ searchStatus' = reply.status
                  /\ pending' = Return(<<>>)
                  /\ UNCHANGED <<data, cur, messages>>
             ELSE /\ mpc' = "fetch"
                  /\ searchStatus' = reply.status
                  /\ data' = reply.ids
                  /\ cur' = 1
                  /\ messages' = <<>>
                  /\ UNCHANGED pending
    /\ UNCHANGED <<mailArgs, seen, mOutcome, closeRaised>>
    /\ UNCHANGED nonMailVars

\* lines 55-58: the next message number, its fetch, and the continue on a
\* status other than OK.  The mailbox is selected read-write (line 43) and
\* the fetch asks for RFC822, not for BODY.PEEK[]: a server that follows
\* RFC 3501 (6.4.5) flags the message \Seen as it answers the fetch; other
\* servers leave the flag alone.  When the reply is lost in transit the
\* fetch raises, and the server may have flagged the message already.
MailFetch ==
    /\ mpc = "fetch"
    /\ cur <= Len(data)
    /\ \E reply \in FetchReplies(data[cur]) :
          /\ cmds' = Append(cmds, Cmd("fetch", data[cur], reply.status))
          /\ injected' = (injected \/ reply.fault)
          /\ IF reply.kind = "raise"
             THEN /\ mpc' = "close"
                  /\ pending' = Raise("fetch")
                  /\ \E implicit \in BOOLEAN :
                        seen' = IF implicit THEN seen \cup {data[cur]} ELSE seen
                  /\ UNCHANGED cur
             ELSE IF reply.status # "OK"
             THEN mpc' = "fetch" /\ cur' = cur + 1 /\ UNCHANGED <<pending, seen>>
             ELSE /\ mpc' = "extract"
                  /\ \E implicit \in BOOLEAN :
                        seen' = IF implicit THEN seen \cup {data[cur]} ELSE seen
                  /\ UNCHANGED <<cur, pending>>
    /\ UNCHANGED <<mailArgs, searchStatus, data, messages, mOutcome,
                   closeRaised>>
    /\ UNCHANGED nonMailVars

\* lines 60-70: parse the message, decode the subject, extract the snippet,
\* append the pair, and test mark_as_read.
MailExtract ==
    /\ mpc = "extract"
    /\ \E ok \in BOOLEAN :
          IF ok
          THEN /\ messages' = Append(messages, Pair(data[cur]))
               /\ IF mark_as_read
                  THEN mpc' = "store" /\ UNCHANGED cur
                  ELSE mpc' = "fetch" /\ cur' = cur + 1
               /\ UNCHANGED <<pending, injected>>
          ELSE /\ mpc' = "close"
               /\ pending' = Raise("extract")
               /\ injected' = TRUE
               /\ UNCHANGED <<messages, cur>>
    /\ UNCHANGED <<mailArgs, seen, searchStatus, data, cmds, mOutcome,
                   closeRaised>>
    /\ UNCHANGED nonMailVars

\* line 71: connection.store(num, "+FLAGS", "\\Seen"); the status it returns
\* is not looked at: after a NO the message stays unflagged and the loop goes
\* on.  When the store raises, the reply was lost and the server may have
\* applied the flag all the same.
MailStore ==
    /\ mpc = "store"
    /\ cmds' = Append(cmds, Cmd("store", data[cur], ""))
    /\ \E reply \in {"OK", "NO", "raise"} :
          IF reply = "raise"
          THEN /\ mpc' = "close"
               /\ pending' = Raise("store")
               /\ injected' = TRUE
               /\ \E applied \in BOOLEAN :
                     seen' = IF applied THEN seen \cup {data[cur]} ELSE seen
               /\ UNCHANGED cur
          ELSE /\ seen' = IF reply = "OK" THEN seen \cup {data[cur]} ELSE seen
               /\ injected' = (injected \/ reply = "NO")
               /\ mpc' = "fetch"
               /\ cur' = cur + 1
               /\ UNCHANGED pending
    /\ UNCHANGED <<mailArgs, searchStatus, data, messages, mOutcome,
                   closeRaised>>
    /\ UNCHANGED nonMailVars

\* line 73: return messages, once the loop is over.
MailReturn ==
    /\ mpc = "fetch"
    /\ cur > Len(data)
    /\ pending' = Return(messages)
    /\ mpc' = "close"
    /\ UNCHANGED <<mailArgs, seen, searchStatus, data, cur, messages, cmds,
                   mOutcome, injected, closeRaised>>
    /\ UNCHANGED nonMailVars

\* MailClose with close and logout in one finally block, not nested: an
\* exception out of close skips the logout.
MailClose_NotNested ==
    /\ mpc = "close"
    /\ cmds' = Append(cmds, Cmd("close", 0, ""))
    /\ \E ok \in BOOLEAN :
          IF ok
          THEN mpc' = "logout" /\ UNCHANGED <<pending, injected, closeRaised, mOutcome>>
          ELSE /\ mpc' = "done"
               /\ mOutcome' = "raised"
               /\ pending' = Raise("close")
               /\ injected' = TRUE
               /\ closeRaised' = TRUE
    /\ UNCHANGED <<mailArgs, seen, searchStatus, data, cur, messages>>
    /\ UNCHANGED nonMailVars

\* lines 74-76: the finally block's connection.close(); an exception out of
\* it replaces what the try block left, and the inner finally still runs.
MailClose ==
    /\ mpc = "close"
    /\ cmds' = Append(cmds, Cmd("close", 0, ""))
    /\ mpc' = "logout"
    /\ \E ok \in BOOLEAN :
          IF ok
          THEN UNCHANGED <<pending, injected, closeRaised>>
          ELSE pending' = Raise("close") /\ injected' = TRUE /\ closeRaised' = TRUE
    /\ UNCHANGED <<mailArgs, seen, searchStatus, data, cur, messages, mOutcome>>
    /\ UNCHANGED nonMailVars

\* lines 77-78: the inner finally's connection.logout(), then the call ends
\* with what is pending.
MailLogout ==
    /\ mpc = "logout"
    /\ cmds' = Append(cmds, Cmd("logout", 0, ""))
    /\ mpc' = "done"
    /\ \E ok \in BOOLEAN :
          /\ pending' = IF ok THEN pending ELSE Raise("logout")
          /\ injected' = (injected \/ ~ok)
          /\ mOutcome' = IF ok /\ pending.kind = "return" THEN "returned" ELSE "raised"
    /\ UNCHANGED <<mailArgs, seen, searchStatus, data, cur, messages, closeRaised>>
    /\ UNCHANGED nonMailVars

MailNext ==
    \/ MailConnect
    \/ MailLogin
    \/ MailSelect
    \/ MailSearch
    \/ MailFetch
    \/ MailExtract
    \/ MailStore
    \/ MailReturn
    \/ MailClose
    \/ MailLogout

\* ==================================================================
\* One specification per function; the other functions stay idle.
\* ==================================================================
InitMail == MailInit /\ NewsIdle /\ WeatherIdle /\ BodyIdle /\ SendIdle
InitNews == NewsInit /\ MailIdle /\ WeatherIdle /\ BodyIdle /\ SendIdle
InitWeather == WeatherInit /\ MailIdle /\ NewsIdle /\ BodyIdle /\ SendIdle
InitBody == BodyInit /\ MailIdle /\ NewsIdle /\ WeatherIdle /\ SendIdle
InitSend == SendInit /\ MailIdle /\ NewsIdle /\ WeatherIdle

SpecMail == InitMail /\ [][MailNext]_vars
SpecNews == InitNews /\ [][NewsNext]_vars
SpecWeather == InitWeather /\ [][WeatherNext]_vars
SpecBody == InitBody /\ [][BodyNext]_vars
SpecSend == InitSend /\ [][SendNext]_vars

\* ------------------------------------------------ claims on fetch_unread

HasCmd(op) == \E k \in 1..Len(cmds) : cmds[k].op = op
CountCmd(op) == Cardinality({k \in 1..Len(cmds) : cmds[k].op = op})
FetchIdx == {k \in 1..Len(cmds) : cmds[k].op = "fetch"}
InMessages(n) == \E j \in 1..Len(messages) : messages[j] = Pair(n)

\* C1: once the connection object exists, every way out of fetch_unread has
\* issued close and then logout, exactly once each and as its last two
\* commands; the logout is issued also when close raised.
C1_ReleaseOnEveryExit ==
    (mpc = "done" /\ HasCmd("connect")) =>
        /\ Len(cmds) >= 3
        /\ cmds[Len(cmds) - 1].op = "close"
        /\ cmds[Len(cmds)].op = "logout"
        /\ CountCmd("close") = 1
        /\ CountCmd("logout") = 1

\* C1: a call in which a fetch raised and then close raised too has still
\* logged out.
C1_Witness ==
    /\ mpc = "done"
    /\ closeRaised
    /\ \E k \in FetchIdx : cmds[k].status = "raise"
    /\ cmds[Len(cmds)].op = "logout"

\* C2: with mark_as_read set, a message is flagged \Seen only once its own
\* fetch came back OK and its pair is in the list; a store is issued only with
\* mark_as_read set, right after the OK fetch of the same message and with its
\* pair already in the list, and nothing but that store (or the release,
\* after an exception) follows an OK fetch, so message i is flagged before
\* message i+1 is fetched; a message whose fetch is not OK is neither listed
\* nor flagged, and the fetches go through the search result in order, to its
\* end in a call that returns the list; without mark_as_read no store is
\* issued.
C2_MarkAfterExtractPerMessage ==
    /\ mark_as_read =>
          \A n \in seen :
             /\ InMessages(n)
             /\ \E k \in FetchIdx : cmds[k] = Cmd("fetch", n, "OK")
    /\ \A k \in 1..Len(cmds) :
          cmds[k].op = "store" =>
             /\ mark_as_read
             /\ k > 1
             /\ cmds[k - 1] = Cmd("fetch", cmds[k].num, "OK")
             /\ InMessages(cmds[k].num)
    /\ \A k \in FetchIdx :
          (mark_as_read /\ cmds[k].status = "OK" /\ k < Len(cmds)) =>
             \/ cmds[k + 1] = Cmd("store", cmds[k].num, "")
             \/ cmds[k + 1].op = "close"
    /\ \A k \in FetchIdx :
          cmds[k].status = "NO" =>
             /\ ~InMessages(cmds[k].num)
             /\ cmds[k].num \notin seen
             /\ \A j \in 1..Len(cmds) :
                   cmds[j].op = "store" => cmds[j].num # cmds[k].num
    /\ \A k \in FetchIdx :
          LET pos == Cardinality({j \in FetchIdx : j <= k})
          IN pos <= Len(data) /\ cmds[k].num = data[pos]
    /\ (mOutcome = "returned" /\ searchStatus = "OK") =>
          /\ Cardinality(FetchIdx) = Len(data)
          /\ \A j \in 1..Len(data) :
                mailbox[data[j]].fetchable <=> InMessages(data[j])
    /\ ~mark_as_read => ~HasCmd("store")

\* C3: with exclude_promotions set on a server that does not know the
\* category search, a call in which nothing failed in transit returns what the
\* call without the option returns on this mailbox (the pairs of its
\* fetchable unread messages) after fetching every unread message.
C3_FilterIsNoOpWhenUnsupported ==
    (mpc = "done" /\ exclude_promotions /\ ~gmSupported /\ ~injected) =>
        /\ mOutcome = "returned"
        /\ Cardinality(FetchIdx) = Len(mailbox)
        /\ \A n \in 1..Len(mailbox) : mailbox[n].fetchable <=> InMessages(n)

\* C4 as claimed: a search status other than OK makes the call return the
\* empty list without raising and without any fetch or store; a failed
\* connection or login ends the call with an error.
C4_SearchFailureYieldsEmptyList ==
    /\ (mpc = "done" /\ searchStatus \notin {"", "OK"}) =>
          /\ mOutcome = "returned"
          /\ pending = Return(<<>>)
          /\ ~HasCmd("fetch")
          /\ ~HasCmd("store")
          /\ seen = {}
    /\ (mpc = "done" /\ ~HasCmd("connect")) => mOutcome = "raised"
    /\ (mpc = "done" /\ HasCmd("login") /\ ~HasCmd("select")) => mOutcome = "raised"

\* C4 as amended: after a search status other than OK no fetch and no store
\* is issued and no message is flagged; the call returns the empty list unless
\* close or logout raised in the release, and then it ends with that error; a
\* failed connection or login ends the call with an error.
C4_SearchFailureUnlessReleaseRaises ==
    /\ (mpc = "done" /\ searchStatus \notin {"", "OK"}) =>
          /\ ~HasCmd("fetch")
          /\ ~HasCmd("store")
          /\ seen = {}
          /\ IF closeRaised \/ pending = Raise("logout")
             THEN mOutcome = "raised"
             ELSE mOutcome = "returned" /\ pending = Return(<<>>)
    /\ (mpc = "done" /\ ~HasCmd("connect")) => mOutcome = "raised"
    /\ (mpc = "done" /\ HasCmd("login") /\ ~HasCmd("select")) => mOutcome = "raised"

\* C4: a call on a mailbox with unread messages and mark_as_read set whose
\* search came back NO has returned the empty list.
C4_Witness ==
    /\ mpc = "done"
    /\ searchStatus = "NO"
    /\ Len(mailbox) > 0
    /\ mark_as_read
    /\ mOutcome = "returned"
    /\ pending = Return(<<>>)

\* ----------------------------------------- claims on fetch_top_headlines

\* The clamped limit as the claim states it: min(5, max(3, requested)).
ClaimedLimit == IF requested < 3 THEN 3 ELSE IF requested > 5 THEN 5 ELSE requested
ValidIdx(n) == {k \in 1..Min(n, Len(articles)) :
                   articles[k].title # <<>> /\ articles[k].url # <<>>}
Rank(S, k) == Cardinality({m \in S : m <= k})
Headline(k) == [title |-> articles[k].title, url |-> articles[k].url]

\* keywords and category are both absent or empty, as the claim puts it:
\* there is no term and no category text.
NoSelector == keywords.terms = <<>> /\ category.text = <<>>

\* C5 as claimed: with neither keywords nor category (absent or empty) the
\* call ends with the caller error and sends no request, whether the API key
\* is set or not.
C5_NoSelectorIsCallerError ==
    (npc = "done" /\ NoSelector) => nOutcome = "ValueError" /\ requests = <<>>

\* C5 as amended: with keywords None or an empty string or list, and
\* category None or empty, the call sends no request and ends with an error:
\* the caller error when the API key is set, the configuration error when it
\* is not.  (An iterator that yields no term is not covered.)
C5_NoSelectorNoRequest ==
    (npc = "done" /\ NoSelector /\ keywords.type # "iter") =>
        /\ requests = <<>>
        /\ nOutcome = IF api_key THEN "ValueError" ELSE "EnvironmentError"

\* C5: a call with the key set, keywords an empty list and category an empty
\* string has ended with the caller error.
C5_Witness ==
    /\ npc = "done"
    /\ api_key
    /\ keywords = [type |-> "list", terms |-> <<>>]
    /\ category = [given |-> TRUE, text |-> <<>>]
    /\ nOutcome = "ValueError"
    /\ requests = <<>>

\* C6 as claimed: the result is the first L of the articles that have a title
\* and a url, in the order of the API, L = min(5, max(3, requested)), and the
\* page size sent is L.
C6_FirstLOfTheValidArticles ==
    (npc = "done" /\ nOutcome = "returned") =>
        LET valid == ValidIdx(Len(articles))
            kept == {k \in valid : Rank(valid, k) <= ClaimedLimit}
        IN /\ Len(nResult) = Cardinality(kept)
           /\ \A k \in kept : nResult[Rank(valid, k)] = Headline(k)
           /\ requests[1].pageSize = ClaimedLimit

\* C6 as amended: the result is, in the order of the API, the articles among
\* the first L of the array that have a title and a url, so it has at most L
\* entries, each with a title and a url; the page size sent is L.
C6_ValidAmongTheFirstL ==
    /\ (npc = "done" /\ nOutcome = "returned") =>
          LET kept == ValidIdx(ClaimedLimit)
          IN /\ Len(nResult) = Cardinality(kept)
             /\ \A k \in kept : nResult[Rank(kept, k)] = Headline(k)
             /\ Len(nResult) <= ClaimedLimit
             /\ \A j \in 1..Len(nResult) :
                   nResult[j].title # <<>> /\ nResult[j].url # <<>>
    /\ \A r \in 1..Len(requests) : requests[r].pageSize = ClaimedLimit

\* C6: a call asked for more than five got an array longer than five whose
\* first five hold an entry without a title, and returned fewer than five.
C6_Witness ==
    /\ npc = "done"
    /\ nOutcome = "returned"
    /\ requested > 5
    /\ Len(articles) > 5
    /\ articles[2].title = <<>>
    /\ articles[6].title # <<>> /\ articles[6].url # <<>>
    /\ Len(nResult) = 4

\* ------------------------------------------- claims on get_daily_weather

\* C7: whenever the request succeeded the call returns a summary, computed
\* from the samples of today when there is one and from the first sample
\* alone otherwise; with no sample at all it still returns.
C7_SummaryWheneverRequestSucceeds ==
    (wpc = "done" /\ wOutcome \notin {"RuntimeError", "RequestException", "HTTPError"}) =>
        /\ wOutcome = "returned"
        /\ IF \E k \in 1..Len(samples) : samples[k].date = today
           THEN /\ todays_entries # <<>>
                /\ \A j \in 1..Len(todays_entries) : todays_entries[j].date = today
                /\ Len(todays_entries) =
                      Cardinality({k \in 1..Len(samples) : samples[k].date = today})
           ELSE todays_entries = Take(samples, 1)

\* --------------------------------------------------- claims on build_body

IndexOf(seq, tok) ==
    IF \E k \in 1..Len(seq) : seq[k] = tok
    THEN CHOOSE k \in 1..Len(seq) : seq[k] = tok /\ \A j \in 1..(k - 1) : seq[j] # tok
    ELSE 0

\* The entries listed from position k on, each written opener, entry, closer.
RECURSIVE EntriesFrom(_, _, _)
EntriesFrom(seq, k, opener) ==
    IF k + 2 <= Len(seq) /\ seq[k] = opener
    THEN <<seq[k + 1]>> \o EntriesFrom(seq, k + 3, opener)
    ELSE <<>>

TextEntries(header) == EntriesFrom(text_body, IndexOf(text_body, header) + 1, "- ")
HtmlEntries(header) == EntriesFrom(html_body, IndexOf(html_body, header) + 1, "<li>")

\* C10: the headlines and the items listed in the HTML form are the bullets of
\* the text form, in the same order; both forms have the sections Weather,
\* Headlines, Items in that order; and a second call with the same arguments
\* returns the same two forms.
C10_BothFormsFromOneSnapshot ==
    bpc = "done" =>
        /\ HtmlEntries("<h2>Headlines</h2><ul>") = TextEntries("Headlines:\n")
        /\ HtmlEntries("<h2>Items</h2><ul>") = TextEntries("Items:\n")
        /\ 0 < IndexOf(text_body, "Weather:\n")
        /\ IndexOf(text_body, "Weather:\n") < IndexOf(text_body, "Headlines:\n")
        /\ IndexOf(text_body, "Headlines:\n") < IndexOf(text_body, "Items:\n")
        /\ 0 < IndexOf(html_body, "<h2>Weather</h2><p>")
        /\ IndexOf(html_body, "<h2>Weather</h2><p>")
              < IndexOf(html_body, "<h2>Headlines</h2><ul>")
        /\ IndexOf(html_body, "<h2>Headlines</h2><ul>")
              < IndexOf(html_body, "<h2>Items</h2><ul>")
        /\ call = 2 => <<text_body, html_body>> = first

\* ------------------------------------------- claims on send_summary_email

SmtpOps == [k \in 1..Len(smtp) |-> smtp[k].op]
SendIdx == {k \in 1..Len(smtp) : smtp[k].op = "sendmail"}
SessionOrder == <<"connect", "starttls", "login", "sendmail">>

\* C8: with any of host, port, user, password, from-address and to-address
\* missing, the call opens no session and issues no SMTP command, and ends
\* with the configuration error.
C8_MissingSettingRaisesBeforeSession ==
    (\E k \in Settings \cup {"SMTP_PORT"} : environ[k] = "unset") =>
        /\ smtp = <<>>
        /\ ~session
        /\ spc = "done" => sOutcome \in {"ValueError: Missing SMTP configuration",
                                         "ValueError: invalid literal"}

\* C9: the commands of a session are connect, STARTTLS, login, sendmail in
\* that order (cut short by a failure) and then the release, which ends every
\* call that opened a session; sendmail is issued at most once, exactly once
\* in a call that returns, and to the one to-address.
C9_SessionOrderAndRelease ==
    /\ \A k \in 1..Len(smtp) :
          \/ k <= 4 /\ smtp[k].op = SessionOrder[k]
          \/ k = Len(smtp) /\ k >= 2 /\ smtp[k].op = "quit"
    /\ (spc = "done" /\ smtp # <<>>) =>
          /\ smtp[Len(smtp)].op = "quit"
          /\ ~session
    /\ (spc # "done" /\ spc # "exit") => (session <=> smtp # <<>>)
    /\ Cardinality(SendIdx) <= 1
    /\ sOutcome = "returned" => Cardinality(SendIdx) = 1
    /\ \A k \in SendIdx :
          smtp[k].to_addrs = <<Getenv(environ, "EMAIL_TO")>> /\ Len(smtp[k].to_addrs) = 1

\* C9: a call whose sendmail failed has released its session after connect,
\* STARTTLS, login and the one sendmail.
C9_Witness ==
    /\ spc = "done"
    /\ sOutcome = "raised: sendmail"
    /\ SmtpOps = <<"connect", "starttls", "login", "sendmail", "quit">>
    /\ ~session

====
